---- MODULE Spec2Model ----
(***************************************************************************)
(* Voice-agent backend: the tool-call orchestrator of app/main.py, the     *)
(* appointment repository it is wired to (SupabaseAppointmentRepository:   *)
(* a table of rows, every list_by_contact returning fresh copies), the     *)
(* session store of app/store.py and the ConnectionManager fan-out.        *)
(*                                                                         *)
(* The FastAPI handlers are coroutines on one event loop.  A handler runs  *)
(* without interruption up to its first suspension; the only suspensions   *)
(* of a tool handler are the websocket sends inside manager.broadcast      *)
(* (the repository client is synchronous, and awaiting create_appointment  *)
(* or _record_tool_event runs them inline).  Each action below is one such *)
(* uninterrupted segment.                                                  *)
(*                                                                         *)
(* Spec is the appointment engine driven by tool calls and POST            *)
(* /appointments with no observer connected; SpecBus adds the websocket    *)
(* route, so that tool handlers are suspended in broadcast while others    *)
(* run.  SpecSessions drives the tool routes for two sessions,             *)
(* SpecIsolation has an observer subscribe to either of two sessions,      *)
(* SpecFanout has two observers of one session, and SpecAgent puts the     *)
(* VoiceBookingAgent of app/agents/voice_agent.py in front of the routes,  *)
(* with the summaries table (SupabaseSummaryRepository) behind them.       *)
(* SpecStorage lets the appointments table refuse a write: the insert of   *)
(* book_appointment and the update of cancel_appointment and               *)
(* modify_appointment go through or raise; in every other specification    *)
(* the table accepts every write.  SpecSlots drives the appointment routes *)
(* over the slots of two days, with rows of any status posted directly.    *)
(* Request payloads are schema-valid.                                      *)
(***************************************************************************)
EXTENDS Integers, Sequences, FiniteSets, TLC

\* ------------------------------------------------------------------ bounds
MaxEvents == 2      \* completed tool events recorded over all sessions
MaxAppts  == 2      \* rows in the appointments table

\* --------------------------------------------------------------- constants
BufferMinutes == 30 \* default of _within_buffer

None == "None"      \* Python None / key absent from the payload

Sessions == {"s1", "s2"}
Sockets  == {"w1", "w2"}

Falsy(x) == x \in {None, ""}

\* --------------------------------------------------- date/time conversion
\* dateutil.parser.parse(s, fuzzy=True) on the date inputs of the model: the
\* calendar day as yyyymmdd, or -1 when the parser raises.  "02/10/2026" is
\* read month first (dayfirst is not set).
ParseDate(s) ==
  CASE s = "2026-02-10"  -> 20260210
    [] s = "Feb 10 2026" -> 20260210
    [] s = "2026-02-11"  -> 20260211
    [] s = "02/10/2026"  -> 20260210
    [] OTHER             -> -1

\* date.isoformat()
IsoFormat(d) ==
  CASE d = 20260210 -> "2026-02-10"
    [] d = 20260211 -> "2026-02-11"
    [] OTHER        -> "?"

\* dateutil.parser.parse(s, fuzzy=True) on the time inputs of the model: the
\* time of day in minutes after midnight, or -1 when the parser raises.  A
\* bare "9" is taken as a day of the month, which leaves the time at 00:00.
ParseTime(s) ==
  CASE s = "09:00" -> 540
    [] s = "9am"   -> 540
    [] s = "09:10" -> 550
    [] s = "09:20" -> 560
    [] s = "09:30" -> 570
    [] s = "00:00" -> 0
    [] s = "00:05" -> 5
    [] s = "23:50" -> 1430
    [] s = "9"     -> 0
    [] OTHER       -> -1

\* time.strftime("%H:%M")
StrfTime(m) ==
  CASE m = 540 -> "09:00"
    [] m = 550 -> "09:10"
    [] m = 560 -> "09:20"
    [] m = 570 -> "09:30"
    [] m = 0   -> "00:00"
    [] m = 5   -> "00:05"
    [] m = 1430 -> "23:50"
    [] OTHER   -> "?"

NormalizeOk(date_str, time_str) ==
  ParseDate(date_str) # -1 /\ ParseTime(time_str) # -1

\* _normalize_date_time: the canonical pair (only read when NormalizeOk)
normalize_date_time(date_str, time_str) ==
  [date |-> IsoFormat(ParseDate(date_str)), time |-> StrfTime(ParseTime(time_str))]

Abs(x) == IF x < 0 THEN -x ELSE x

\* variant: the bound is inclusive
within_buffer_strict(existing_time, new_time) ==
  Abs(ParseTime(existing_time) - ParseTime(new_time)) * 60 <= BufferMinutes * 60

\* variant: the delta in seconds is compared with the buffer in minutes
within_buffer_unscaled(existing_time, new_time) ==
  Abs(ParseTime(existing_time) - ParseTime(new_time)) * 60 < BufferMinutes

\* _within_buffer: both strings parsed onto today's date, delta in seconds
within_buffer(existing_time, new_time) ==
  Abs(ParseTime(existing_time) - ParseTime(new_time)) * 60 < BufferMinutes * 60

\* ------------------------------------------------------------------- state
VARIABLES
  repo,       \* appointments table: a set of rows (row order is the database's)
  contact,    \* SessionState.contact_number per session
  log,        \* SessionState.tool_calls per session
  conns,      \* ConnectionManager.active_connections per session
  inbox,      \* messages each websocket client has been sent
  sock,       \* each websocket: "new", "open" (accepted) or "closed"
  tasks,      \* coroutines suspended inside manager.broadcast
  resp,       \* the envelope most recently returned to a caller
  pubs,       \* number of tool_call broadcasts started, per event id
  agent,      \* VoiceBookingAgent.state of the agent serving each session, and
              \* where the agent is inside its end_conversation tool
  summaries   \* summaries table: rows in insertion order

vars == <<repo, contact, log, conns, inbox, sock, tasks, resp, pubs, agent, summaries>>

\* what a backend route leaves alone: the agent process and, for the tool
\* routes, the summaries table
agent_side == <<agent, summaries>>

NoAppt == [id |-> 0, contact_number |-> None, name |-> None, date |-> None,
           time |-> None, status |-> None]

Appt(id, c, name, date, time, status) ==
  [id |-> id, contact_number |-> c, name |-> name, date |-> date,
   time |-> time, status |-> status]

EventIds == 1..(MaxEvents + 1)

\* events recorded so far, over all sessions
NumEvents == Len(log["s1"]) + Len(log["s2"])

\* ----------------------------------------------------------- tools/handlers
PhoneNotConfirmed == "Phone number not confirmed"
PhoneMissing      == "Phone number missing"
NameMissing       == "Name missing"
DateTimeMissing   == "Date/time missing"
InvalidDateTime   == "Could not understand the date/time"
NoMatch           == "No matching appointment found"

\* build_tool_event: uuid4 ids are fresh; a failed event is never stored, so
\* only completed events take a number.
build_tool_event(name, detail, status) ==
  [id |-> IF status = "completed" THEN NumEvents + 1 ELSE 0,
   name |-> name, status |-> status, detail |-> detail]

tool_missing_info(tool_name, detail) == build_tool_event(tool_name, detail, "failed")
tool_invalid_datetime(tool_name) == build_tool_event(tool_name, InvalidDateTime, "failed")

NoEvent == [id |-> 0, name |-> None, status |-> None, detail |-> None]

Envelope(tool, sid, event, appt, appts) ==
  [tog |-> 0, tool |-> tool, sid |-> sid,
   event |-> event, appt |-> appt, appts |-> appts]

\* str.strip() on the names of the model
Strip(name) == IF name = " " THEN "" ELSE name

tool_identify_user(contact_number) ==
  build_tool_event("identify_user",
                   IF Falsy(contact_number) THEN "Asked for phone number" ELSE "Received",
                   "completed")

tool_fetch_slots == build_tool_event("fetch_slots", "Returned slots", "completed")

tool_book_appointment(appointment) ==
  build_tool_event("book_appointment", "Booked", "completed")

tool_retrieve_appointments(contact_number, count) ==
  IF Falsy(contact_number)
  THEN build_tool_event("retrieve_appointments", "No confirmed phone number yet", "failed")
  ELSE build_tool_event("retrieve_appointments", "Found", "completed")

tool_cancel_appointment(date, time, name) ==
  build_tool_event("cancel_appointment", "Cancelled", "completed")

tool_modify_appointment(appointment) ==
  build_tool_event("modify_appointment", "Modified", "completed")

\* ------------------------------------------------------------- repository
\* SupabaseAppointmentRepository.list_by_contact: copies of the matching rows
list_by_contact(contact_number) == {a \in repo : a.contact_number = contact_number}

\* SupabaseAppointmentRepository.create: insert one row
repo_create(rows, appointment) == rows \cup {appointment}

\* variant: the row is deleted instead of replaced
repo_update_delete(rows, appointment) == {a \in rows : a.id # appointment.id}

\* SupabaseAppointmentRepository.update: replace the row(s) with that id
repo_update(rows, appointment) ==
  {a \in rows : a.id # appointment.id} \cup
  (IF \E a \in rows : a.id = appointment.id THEN {appointment} ELSE {})

\* uuid4().hex of a new appointment: an id no stored row has
NewId == Cardinality(repo) + 1

\* variant: only an appointment at the very same time is a conflict
CreateConflict_sametime(appointment) ==
  \E existing \in list_by_contact(appointment.contact_number) :
     /\ existing.status = "booked"
     /\ existing.date = appointment.date
     /\ existing.time = appointment.time

\* variant: rows that are cancelled or in conflict block a candidate too
CreateConflict_anystatus(appointment) ==
  \E existing \in list_by_contact(appointment.contact_number) :
     /\ existing.date = appointment.date
     /\ within_buffer(existing.time, appointment.time)

\* the conflict loop of create_appointment
CreateConflict(appointment) ==
  \E existing \in list_by_contact(appointment.contact_number) :
     /\ existing.status = "booked"
     /\ existing.date = appointment.date
     /\ within_buffer(existing.time, appointment.time)

\* variant: the insert is not preceded by the conflict loop
create_appointment_nocheck(appointment, reject) ==
  IF reject
  THEN [appt |-> [appointment EXCEPT !.status = "conflict"], rows |-> repo]
  ELSE [appt |-> appointment, rows |-> repo_create(repo, appointment)]

\* variant: a rejected insert is dropped and the appointment reported as it came
create_appointment_dropped(appointment, reject) ==
  IF CreateConflict(appointment)
  THEN [appt |-> [appointment EXCEPT !.status = "conflict"], rows |-> repo]
  ELSE IF reject THEN [appt |-> appointment, rows |-> repo]
  ELSE [appt |-> appointment, rows |-> repo_create(repo, appointment)]

\* create_appointment (POST /appointments, and called by book_appointment):
\* the appointment returned and the table afterwards.  `reject` is the
\* repository raising on the insert.
create_appointment(appointment, reject) ==
  IF CreateConflict(appointment) \/ reject
  THEN [appt |-> [appointment EXCEPT !.status = "conflict"], rows |-> repo]
  ELSE [appt |-> appointment, rows |-> repo_create(repo, appointment)]

\* variant: the loop compares with the slot the target is leaving
ModifyConflict_oldslot(appointments, target, new_date, new_time) ==
  \E existing \in appointments :
     /\ ~(existing.id = target.id \/ existing.status # "booked")
     /\ existing.date = target.date
     /\ within_buffer(existing.time, target.time)

\* create_summary's booked-only view of a contact's appointments
booked_appointments(rows, contact_number) ==
  {appt \in rows : appt.contact_number = contact_number /\ appt.status = "booked"}

\* variant: the target is compared with its own slot
ModifyConflict_self(appointments, target, new_date, new_time) ==
  \E existing \in appointments :
     /\ existing.status = "booked"
     /\ existing.date = new_date
     /\ within_buffer(existing.time, new_time)

\* the conflict loop of modify_appointment
ModifyConflict(appointments, target, new_date, new_time) ==
  \E existing \in appointments :
     /\ ~(existing.id = target.id \/ existing.status # "booked")
     /\ existing.date = new_date
     /\ within_buffer(existing.time, new_time)

\* the lookup of cancel_appointment and modify_appointment: rows the
\* generator expression accepts (next() takes the first in row order)
Matches(appointments, date, time, name) ==
  {appt \in appointments :
     appt.date = date /\ appt.time = time /\ (name = None \/ appt.name = name)}

\* ----------------------------------------------------- event bookkeeping
\* the handler returns its envelope; `tog` flips when the envelope equals the
\* one returned before it, so that every return is a change of state
Return(env) ==
  resp' = [env EXCEPT !.tog = IF env = [resp EXCEPT !.tog = 0] THEN 1 - resp.tog ELSE 0]

\* variant: the newest event is put at the head of the session's log
RecordAndReturn_prepend(sid, env) ==
  IF env.event.status # "completed"
  THEN /\ Return(env)
       /\ UNCHANGED <<log, pubs, tasks>>
  ELSE /\ log' = [log EXCEPT ![sid] = <<env.event>> \o @]
       /\ pubs' = [pubs EXCEPT ![env.event.id] = @ + 1]
       /\ IF conns[sid] = <<>>
          THEN Return(env) /\ UNCHANGED tasks
          ELSE /\ tasks' = tasks \cup {[kind |-> "tool_call", sid |-> sid,
                               id |-> env.event.id, owner |-> None,
                               todo |-> conns[sid], env |-> env]}
               /\ UNCHANGED resp

\* variant: an event is broadcast to the subscribers of every session
RecordAndReturn_everyone(sid, env) ==
  IF env.event.status # "completed"
  THEN /\ Return(env)
       /\ UNCHANGED <<log, pubs, tasks>>
  ELSE /\ log' = [log EXCEPT ![sid] = Append(@, env.event)]
       /\ pubs' = [pubs EXCEPT ![env.event.id] = @ + 1]
       /\ IF conns["s1"] \o conns["s2"] = <<>>
          THEN Return(env) /\ UNCHANGED tasks
          ELSE /\ tasks' = tasks \cup
                     {[kind |-> "tool_call", sid |-> sid, id |-> env.event.id,
                       owner |-> None, todo |-> conns["s1"] \o conns["s2"], env |-> env]}
               /\ UNCHANGED resp

\* variant: the event is broadcast but not added to the session's log
RecordAndReturn_nolog(sid, env) ==
  IF env.event.status # "completed"
  THEN /\ Return(env)
       /\ UNCHANGED <<log, pubs, tasks>>
  ELSE /\ UNCHANGED log
       /\ pubs' = [pubs EXCEPT ![env.event.id] = @ + 1]
       /\ IF conns[sid] = <<>>
          THEN Return(env) /\ UNCHANGED tasks
          ELSE /\ tasks' = tasks \cup
                     {[kind |-> "tool_call", sid |-> sid, id |-> env.event.id,
                       owner |-> None, todo |-> conns[sid], env |-> env]}
               /\ UNCHANGED resp

\* variant: a failed event is added to the session's log too
RecordAndReturn_logall(sid, env) ==
  IF env.event.status # "completed"
  THEN /\ Return(env)
       /\ log' = [log EXCEPT ![sid] = Append(@, env.event)]
       /\ UNCHANGED <<pubs, tasks>>
  ELSE /\ log' = [log EXCEPT ![sid] = Append(@, env.event)]
       /\ pubs' = [pubs EXCEPT ![env.event.id] = @ + 1]
       /\ IF conns[sid] = <<>>
          THEN Return(env) /\ UNCHANGED tasks
          ELSE /\ tasks' = tasks \cup
                     {[kind |-> "tool_call", sid |-> sid, id |-> env.event.id,
                       owner |-> None, todo |-> conns[sid], env |-> env]}
               /\ UNCHANGED resp

\* _record_tool_event followed by the handler's return statement
RecordAndReturn(sid, env) ==
  IF env.event.status # "completed"
  THEN /\ Return(env)
       /\ UNCHANGED <<log, pubs, tasks>>
  ELSE /\ log' = [log EXCEPT ![sid] = Append(@, env.event)]
       /\ pubs' = [pubs EXCEPT ![env.event.id] = @ + 1]
       /\ IF conns[sid] = <<>>
          THEN Return(env) /\ UNCHANGED tasks
          ELSE /\ tasks' = tasks \cup
                     {[kind |-> "tool_call", sid |-> sid, id |-> env.event.id,
                       owner |-> None, todo |-> conns[sid], env |-> env]}
               /\ UNCHANGED resp

Fail(tool, sid, event) ==
  /\ RecordAndReturn(sid, Envelope(tool, sid, event, NoAppt, {}))
  /\ UNCHANGED repo

\* variant: only the first contact number of a session is stored
SetContact_first(sid, contact_number) ==
  IF Falsy(contact_number) \/ ~Falsy(contact[sid])
  THEN contact ELSE [contact EXCEPT ![sid] = contact_number]

\* store.set_contact_number when the call supplies a contact number
SetContact(sid, contact_number) ==
  IF Falsy(contact_number) THEN contact ELSE [contact EXCEPT ![sid] = contact_number]

\* ---------------------------------------------------------------- handlers
\* POST /tools/identify_user
identify_user(sid, contact_number) ==
  /\ NumEvents < MaxEvents
  /\ contact' = SetContact(sid, contact_number)
  /\ RecordAndReturn(sid, Envelope("identify_user", sid,
        tool_identify_user(contact_number), NoAppt, {}))
  /\ UNCHANGED <<repo, conns, inbox, sock>>

\* POST /tools/fetch_slots
fetch_slots(sid) ==
  /\ NumEvents < MaxEvents
  /\ RecordAndReturn(sid, Envelope("fetch_slots", sid, tool_fetch_slots, NoAppt, {}))
  /\ UNCHANGED <<repo, contact, conns, inbox, sock>>

\* POST /session/{session_id}/tools: the event is the caller's, id included
push_tool_call(sid, event) ==
  /\ NumEvents < MaxEvents
  /\ RecordAndReturn(sid, Envelope("push_tool_call", sid, event, NoAppt, {}))
  /\ UNCHANGED <<repo, contact, conns, inbox, sock>>

\* POST /appointments
post_appointment(contact_number, name, date, time, reject) ==
  /\ Cardinality(repo) < MaxAppts
  /\ LET created == create_appointment(
                       Appt(NewId, contact_number, name, date, time, "booked"), reject)
     IN /\ repo' = created.rows
        /\ Return(Envelope("create_appointment", None,
                           NoEvent, created.appt, {}))
  /\ UNCHANGED <<contact, log, conns, inbox, sock, tasks, pubs>>

\* POST /appointments with the status the client puts in the body (the schema
\* defaults it to "booked" and accepts any string)
post_appointment_status(contact_number, name, date, time, status) ==
  /\ Cardinality(repo) < MaxAppts
  /\ LET created == create_appointment(
                       Appt(NewId, contact_number, name, date, time, status), FALSE)
     IN /\ repo' = created.rows
        /\ Return(Envelope("create_appointment", None,
                           NoEvent, created.appt, {}))
  /\ UNCHANGED <<contact, log, conns, inbox, sock, tasks, pubs>>

\* variant: the date and time are normalised before the name is looked at
BookChain_reordered(stored_contact, name, date, time) ==
  IF Falsy(stored_contact) THEN PhoneNotConfirmed
  ELSE IF ~NormalizeOk(date, time) THEN InvalidDateTime
  ELSE IF Strip(name) = "" THEN NameMissing
  ELSE "ok"

\* book_appointment's checks before the repository is touched: the detail of
\* the failed event, or "ok"
BookChain(stored_contact, name, date, time) ==
  IF Falsy(stored_contact) THEN PhoneNotConfirmed
  ELSE IF Strip(name) = "" THEN NameMissing
  ELSE IF ~NormalizeOk(date, time) THEN InvalidDateTime
  ELSE "ok"

\* the failed event of a check that did not pass
ChainEvent(tool, detail) ==
  IF detail = InvalidDateTime THEN tool_invalid_datetime(tool)
  ELSE tool_missing_info(tool, detail)

\* POST /tools/book_appointment
book_appointment(sid, contact_number, name, date, time, reject) ==
  LET stored_contact == SetContact(sid, contact_number)[sid]
      tool == "book_appointment"
      check == BookChain(stored_contact, name, date, time)
  IN
  /\ NumEvents < MaxEvents
  /\ Cardinality(repo) < MaxAppts
  /\ contact' = SetContact(sid, contact_number)
  /\ UNCHANGED <<conns, inbox, sock>>
  /\ IF check # "ok"
     THEN Fail(tool, sid, ChainEvent(tool, check))
     ELSE LET n == normalize_date_time(date, time)
              created == create_appointment(
                           Appt(NewId, stored_contact, name, n.date, n.time, "booked"),
                           reject)
          IN /\ repo' = created.rows
             /\ RecordAndReturn(sid, Envelope(tool, sid,
                   tool_book_appointment(created.appt), created.appt, {}))

\* POST /tools/retrieve_appointments
retrieve_appointments(sid, contact_number) ==
  LET tool == "retrieve_appointments"
  IN
  /\ NumEvents < MaxEvents
  /\ UNCHANGED <<repo, conns, inbox, sock>>
  /\ IF Falsy(contact_number)
     THEN /\ RecordAndReturn(sid, Envelope(tool, sid,
                 tool_missing_info(tool, PhoneMissing), NoAppt, {}))
          /\ UNCHANGED contact
     ELSE /\ contact' = [contact EXCEPT ![sid] = contact_number]
          /\ LET appointments == list_by_contact(contact_number)
             IN RecordAndReturn(sid, Envelope(tool, sid,
                  tool_retrieve_appointments(contact_number, Cardinality(appointments)),
                  NoAppt, appointments))

\* cancel_appointment's checks before the repository is touched
CancelChain(stored_contact, date_input, time_input) ==
  IF Falsy(stored_contact) THEN PhoneNotConfirmed
  ELSE IF Falsy(date_input) \/ Falsy(time_input) THEN DateTimeMissing
  ELSE IF ~NormalizeOk(date_input, time_input) THEN InvalidDateTime
  ELSE "ok"

\* POST /tools/cancel_appointment
cancel_appointment(sid, contact_number, name, date_input, time_input) ==
  LET stored_contact == SetContact(sid, contact_number)[sid]
      tool == "cancel_appointment"
      check == CancelChain(stored_contact, date_input, time_input)
  IN
  /\ NumEvents < MaxEvents
  /\ contact' = SetContact(sid, contact_number)
  /\ UNCHANGED <<conns, inbox, sock>>
  /\ IF check # "ok"
     THEN Fail(tool, sid, ChainEvent(tool, check))
     ELSE LET n == normalize_date_time(date_input, time_input)
              appointments == list_by_contact(stored_contact)
              found == Matches(appointments, n.date, n.time, name)
          IN IF found = {}
             THEN Fail(tool, sid, tool_missing_info(tool, NoMatch))
             ELSE \E target \in found :
                    /\ repo' = repo_update(repo, [target EXCEPT !.status = "cancelled"])
                    /\ RecordAndReturn(sid, Envelope(tool, sid,
                          tool_cancel_appointment(n.date, n.time, name), NoAppt, {}))

\* modify_appointment's checks before the repository is touched
ModifyChain(stored_contact, date_input, time_input, new_date_input, new_time_input) ==
  IF Falsy(stored_contact) THEN PhoneNotConfirmed
  ELSE IF Falsy(date_input) \/ Falsy(time_input)
          \/ Falsy(new_date_input) \/ Falsy(new_time_input) THEN DateTimeMissing
  ELSE IF ~(NormalizeOk(date_input, time_input)
            /\ NormalizeOk(new_date_input, new_time_input)) THEN InvalidDateTime
  ELSE "ok"

\* variant: the placeholder appointment is stored as a fresh booking
modify_not_found_creates(sid, stored_contact, name, new_date, new_time) ==
  LET placeholder == Appt(NewId, stored_contact, IF Falsy(name) THEN "Appointment" ELSE name,
                          new_date, new_time, "booked")
  IN /\ repo' = repo_create(repo, placeholder)
     /\ RecordAndReturn(sid, Envelope("modify_appointment", sid,
            tool_missing_info("modify_appointment", NoMatch), NoAppt, {}))

\* modify_appointment, no row matches: the placeholder appointment is built
\* and dropped, nothing is written
modify_not_found(sid, stored_contact, name, new_date, new_time) ==
  LET placeholder == Appt(0, stored_contact, IF Falsy(name) THEN "Appointment" ELSE name,
                          new_date, new_time, "not_found")
  IN Fail("modify_appointment", sid, tool_missing_info("modify_appointment", NoMatch))

\* POST /tools/modify_appointment
modify_appointment(sid, contact_number, name, date_input, time_input, new_date_input, new_time_input) ==
  LET stored_contact == SetContact(sid, contact_number)[sid]
      tool == "modify_appointment"
      check == ModifyChain(stored_contact, date_input, time_input,
                           new_date_input, new_time_input)
  IN
  /\ NumEvents < MaxEvents
  /\ contact' = SetContact(sid, contact_number)
  /\ UNCHANGED <<conns, inbox, sock>>
  /\ IF check # "ok"
     THEN Fail(tool, sid, ChainEvent(tool, check))
     ELSE LET n == normalize_date_time(date_input, time_input)
              m == normalize_date_time(new_date_input, new_time_input)
              appointments == list_by_contact(stored_contact)
              found == Matches(appointments, n.date, n.time, name)
          IN IF found = {}
             THEN modify_not_found(sid, stored_contact, name, m.date, m.time)
             ELSE \E target \in found :
                    IF ModifyConflict(appointments, target, m.date, m.time)
                    THEN LET t == [target EXCEPT !.status = "conflict"]
                         IN /\ UNCHANGED repo
                            /\ RecordAndReturn(sid, Envelope(tool, sid,
                                  tool_modify_appointment(t), t, {}))
                    ELSE LET t == [target EXCEPT !.date = m.date, !.time = m.time]
                         IN /\ repo' = repo_update(repo, t)
                            /\ RecordAndReturn(sid, Envelope(tool, sid,
                                  tool_modify_appointment(t), t, {}))

\* what the caller gets when an exception leaves a handler: the server's
\* internal-error response, no envelope
Raised == [NoEvent EXCEPT !.status = "exception"]
InternalServerError(tool, sid) == Envelope(tool, sid, Raised, NoAppt, {})

\* POST /tools/cancel_appointment when appointment_repo.update raises: the
\* handler has no try around it, nothing is written, recorded or returned
cancel_appointment_raises(sid, contact_number, name, date_input, time_input) ==
  LET stored_contact == SetContact(sid, contact_number)[sid]
      n == normalize_date_time(date_input, time_input)
  IN
  /\ CancelChain(stored_contact, date_input, time_input) = "ok"
  /\ Matches(list_by_contact(stored_contact), n.date, n.time, name) # {}
  /\ contact' = SetContact(sid, contact_number)
  /\ Return(InternalServerError("cancel_appointment", sid))
  /\ UNCHANGED <<repo, log, conns, inbox, sock, tasks, pubs>>

\* POST /tools/modify_appointment when appointment_repo.update raises
modify_appointment_raises(sid, contact_number, name, date_input, time_input, new_date_input, new_time_input) ==
  LET stored_contact == SetContact(sid, contact_number)[sid]
      n == normalize_date_time(date_input, time_input)
      m == normalize_date_time(new_date_input, new_time_input)
      appointments == list_by_contact(stored_contact)
  IN
  /\ ModifyChain(stored_contact, date_input, time_input,
                 new_date_input, new_time_input) = "ok"
  /\ \E target \in Matches(appointments, n.date, n.time, name) :
        ~ModifyConflict(appointments, target, m.date, m.time)
  /\ contact' = SetContact(sid, contact_number)
  /\ Return(InternalServerError("modify_appointment", sid))
  /\ UNCHANGED <<repo, log, conns, inbox, sock, tasks, pubs>>

\* ------------------------------------------------------------- websockets
NoEnvelope == Envelope(None, None, NoEvent, NoAppt, {})

\* the payload a broadcast sends
Message(t) == [type |-> t.kind, id |-> t.id, about |-> t.owner]

\* session_events up to its first suspension inside the "connected" broadcast:
\* ConnectionManager.connect, then the snapshot of the session's connections
ws_connect(w, sid) ==
  /\ sock[w] = "new"
  /\ sock' = [sock EXCEPT ![w] = "open"]
  /\ conns' = [conns EXCEPT ![sid] = Append(@, w)]
  /\ tasks' = tasks \cup
        {[kind |-> "status", sid |-> sid, id |-> 0, owner |-> w,
          todo |-> Append(conns[sid], w), env |-> NoEnvelope]}
  /\ UNCHANGED <<repo, contact, log, inbox, resp, pubs>>

Remove(seq, w) == SelectSeq(seq, LAMBDA x : x # w)

\* session_events: receive_json raises WebSocketDisconnect in the receive loop
\* and ConnectionManager.disconnect removes the socket
ws_disconnect(w) ==
  /\ sock[w] = "open"
  /\ ~\E t \in tasks : t.kind = "status" /\ t.owner = w
  /\ sock' = [sock EXCEPT ![w] = "closed"]
  /\ conns' = [s \in Sessions |-> Remove(conns[s], w)]
  /\ UNCHANGED <<repo, contact, log, inbox, tasks, resp, pubs>>

\* the broadcast loop moves past the socket it was sending to; after the last
\* one the coroutine runs on to its end (a tool handler returns its envelope)
Advance(t) ==
  IF Len(t.todo) > 1
  THEN /\ tasks' = (tasks \ {t}) \cup {[t EXCEPT !.todo = Tail(@)]}
       /\ UNCHANGED resp
  ELSE IF t.kind = "tool_call" /\ t.env.tool = "end_conversation" /\ conns[t.sid] # <<>>
  THEN \* end_conversation goes on to its second broadcast
       /\ tasks' = (tasks \ {t}) \cup
             {[t EXCEPT !.kind = "session_closed", !.id = 0, !.todo = conns[t.sid]]}
       /\ UNCHANGED resp
  ELSE /\ tasks' = tasks \ {t}
       /\ IF t.kind = "status" THEN UNCHANGED resp ELSE Return(t.env)

\* ConnectionManager.broadcast: one websocket.send_json completes
send_json(t) ==
  /\ t \in tasks
  /\ sock[Head(t.todo)] = "open"
  /\ inbox' = [inbox EXCEPT ![Head(t.todo)] = Append(@, Message(t))]
  /\ Advance(t)
  /\ UNCHANGED <<repo, contact, log, conns, sock, pubs>>

\* send_json on a socket of the snapshot that has disconnected meanwhile: the
\* server either discards the frame ...
send_discarded(t) ==
  /\ t \in tasks
  /\ sock[Head(t.todo)] # "open"
  /\ Advance(t)
  /\ UNCHANGED <<repo, contact, log, conns, inbox, sock, pubs>>

\* ... or raises, and the exception leaves broadcast and the handler
send_raises(t) ==
  /\ t \in tasks
  /\ sock[Head(t.todo)] # "open"
  /\ tasks' = tasks \ {t}
  /\ UNCHANGED <<repo, contact, log, conns, inbox, sock, resp, pubs>>

\* -------------------------------------------------- summary and call end
tool_end_conversation == build_tool_event("end_conversation", "Conversation ended", "completed")

\* POST /tools/end_conversation: the event is recorded and broadcast, then
\* session_closed is broadcast (Advance), then the envelope is returned
end_conversation(sid) ==
  /\ NumEvents < MaxEvents
  /\ RecordAndReturn(sid, Envelope("end_conversation", sid, tool_end_conversation, NoAppt, {}))
  /\ UNCHANGED <<repo, contact, conns, inbox, sock>>

\* a list holding the rows of a set once each, in the order the database
\* returns them
RECURSIVE Rows(_)
Rows(set) ==
  IF set = {} THEN <<>>
  ELSE LET a == CHOOSE x \in set : \A y \in set : x.id <= y.id
       IN <<a>> \o Rows(set \ {a})

Range(seq) == {seq[i] : i \in 1..Len(seq)}

\* SupabaseSummaryRepository.create: insert one row
summary_repo_create(rows, summary) == Append(rows, summary)

\* POST /session/{session_id}/summary.  duplicate is the database's answer to
\* a second row for a session: the schema of the table is not the program's,
\* and an insert that a uniqueness constraint refuses raises.
create_summary(session_id, summary, duplicate) ==
  LET stored == IF Falsy(summary.contact_number) THEN summary
                ELSE [summary EXCEPT !.booked_appointments =
                        Rows(booked_appointments(repo, summary.contact_number))]
      env == Envelope("create_summary", session_id, NoEvent, NoAppt,
                      Range(stored.booked_appointments))
  IN
  /\ duplicate => \E i \in 1..Len(summaries) : summaries[i].session_id = summary.session_id
  /\ IF duplicate
     THEN /\ Return(Envelope("create_summary_error", session_id, NoEvent, NoAppt, {}))
          /\ UNCHANGED <<summaries, tasks>>
     ELSE /\ summaries' = summary_repo_create(summaries, stored)
          /\ IF conns[session_id] = <<>>
             THEN Return(env) /\ UNCHANGED tasks
             ELSE /\ tasks' = tasks \cup
                        {[kind |-> "summary", sid |-> session_id, id |-> 0,
                          owner |-> None, todo |-> conns[session_id], env |-> env]}
                  /\ UNCHANGED resp
  /\ UNCHANGED <<repo, contact, log, conns, inbox, sock, pubs>>

\* ------------------------------------------------------------- the agent
\* AgentState()
NewAgentState ==
  [contact_number |-> None, booked |-> <<>>, preferences |-> <<>>,
   actions |-> <<>>, info_notes |-> <<>>, tool_calls |-> 0, pc |-> "idle"]

\* AgentState.record_tool
record_tool(st, name) ==
  [st EXCEPT !.tool_calls = @ + 1,
             !.info_notes = IF name = "fetch_slots" THEN Append(@, "slots")
                            ELSE IF name = "retrieve_appointments" THEN Append(@, "appointments")
                            ELSE @]

\* AgentState.add_action
add_action(st, action, detail) == [st EXCEPT !.actions = Append(@, <<action, detail>>)]

\* VoiceBookingAgent._remove_booked_match: the entries that stay
remaining(booked, contact_number, date, time, name) ==
  SelectSeq(booked, LAMBDA appt :
     \/ (~Falsy(contact_number) /\ appt.contact_number # contact_number)
     \/ (~Falsy(name) /\ appt.name # name)
     \/ ~(appt.date = date /\ appt.time = time))

\* the agent's tools run one at a time and stop counting at the bound
AgentReady(sid) == agent[sid].pc = "idle" /\ agent[sid].tool_calls < MaxEvents

\* VoiceBookingAgent.identify_user
agent_identify_user(sid, contact_number) ==
  /\ AgentReady(sid)
  /\ agent' = [agent EXCEPT ![sid] =
                 [record_tool(@, "identify_user") EXCEPT !.contact_number = contact_number]]
  /\ identify_user(sid, contact_number)
  /\ UNCHANGED summaries

\* VoiceBookingAgent.fetch_slots
agent_fetch_slots(sid) ==
  /\ AgentReady(sid)
  /\ agent' = [agent EXCEPT ![sid] = record_tool(@, "fetch_slots")]
  /\ fetch_slots(sid)
  /\ UNCHANGED summaries

\* VoiceBookingAgent.book_appointment: the appointment is noted as booked
\* before the backend is asked
agent_book_appointment(sid, name, contact_number, date, time, preferences) ==
  LET appointment == Appt(NewId, contact_number, name, date, time, "booked")
      stated == SelectSeq(preferences, LAMBDA x :
                   Strip(x) # "" /\ x \notin Range(agent[sid].preferences))
      noted == [record_tool(agent[sid], "book_appointment") EXCEPT
                  !.booked = Append(@, appointment),
                  !.preferences = @ \o stated]
  IN
  /\ AgentReady(sid)
  /\ agent' = [agent EXCEPT ![sid] = add_action(noted, "created", <<date, time, name>>)]
  /\ book_appointment(sid, contact_number, name, date, time, FALSE)
  /\ UNCHANGED summaries

\* VoiceBookingAgent.cancel_appointment
agent_cancel_appointment(sid, contact_number, date, time, name) ==
  LET noted == [record_tool(agent[sid], "cancel_appointment") EXCEPT
                  !.booked = remaining(@, contact_number, date, time, name)]
  IN
  /\ AgentReady(sid)
  /\ agent' = [agent EXCEPT ![sid] = add_action(noted, "cancelled", <<date, time, name>>)]
  /\ cancel_appointment(sid, contact_number, name, date, time)
  /\ UNCHANGED summaries

\* VoiceBookingAgent._remove_booked_match: the entries it returns
removed(booked, contact_number, date, time, name) ==
  SelectSeq(booked, LAMBDA appt :
     /\ (Falsy(contact_number) \/ appt.contact_number = contact_number)
     /\ (Falsy(name) \/ appt.name = name)
     /\ appt.date = date /\ appt.time = time)

\* VoiceBookingAgent.modify_appointment
agent_modify_appointment(sid, contact_number, date, time, name, new_date, new_time) ==
  LET st == record_tool(agent[sid], "modify_appointment")
      gone == removed(st.booked, contact_number, date, time, name)
      kept == remaining(st.booked, contact_number, date, time, name)
      noted == [st EXCEPT !.booked =
                  IF gone = <<>> THEN kept
                  ELSE Append(kept, [gone[1] EXCEPT !.date = new_date, !.time = new_time])]
  IN
  /\ AgentReady(sid)
  /\ agent' = [agent EXCEPT ![sid] =
                 add_action(noted, "modified", <<date, time, name, new_date, new_time>>)]
  /\ modify_appointment(sid, contact_number, name, date, time, new_date, new_time)
  /\ UNCHANGED summaries

\* the recap end_conversation composes, without its "Call ended at" clause
summary_text(st) ==
  LET of(kind) == SelectSeq(st.actions, LAMBDA a : a[1] = kind)
  IN [booked |-> of("created"), updated |-> of("modified"), cancelled |-> of("cancelled"),
      also |-> IF st.actions = <<>> THEN st.info_notes ELSE <<>>,
      preferences |-> st.preferences]

summary_payload(sid) ==
  [session_id |-> sid, contact_number |-> agent[sid].contact_number,
   summary |-> summary_text(agent[sid]), booked_appointments |-> agent[sid].booked,
   preferences |-> agent[sid].preferences]

\* VoiceBookingAgent.end_conversation up to its first backend call: with no
\* tool call and no preference so far it only ends the call, otherwise it
\* posts the summary (and stops there when the post raises)
agent_end_conversation(sid, duplicate) ==
  /\ agent[sid].pc = "idle"
  /\ IF agent[sid].tool_calls = 0 /\ agent[sid].preferences = <<>>
     THEN /\ ~duplicate
          /\ end_conversation(sid)
          /\ UNCHANGED <<agent, summaries>>
     ELSE /\ Len(summaries) < MaxEvents
          /\ create_summary(sid, summary_payload(sid), duplicate)
          /\ agent' = [agent EXCEPT ![sid].pc = IF duplicate THEN "idle" ELSE "summary_posted"]

\* VoiceBookingAgent.end_conversation after the summary is posted
agent_end_conversation_close(sid) ==
  /\ agent[sid].pc = "summary_posted"
  /\ end_conversation(sid)
  /\ agent' = [agent EXCEPT ![sid].pc = "idle"]
  /\ UNCHANGED summaries

\* -------------------------------------------------------------- the system
Init ==
  /\ repo = {}
  /\ contact = [s \in Sessions |-> None]
  /\ log = [s \in Sessions |-> <<>>]
  /\ conns = [s \in Sessions |-> <<>>]
  /\ inbox = [w \in Sockets |-> <<>>]
  /\ sock = [w \in Sockets |-> "new"]
  /\ tasks = {}
  /\ resp = NoEnvelope
  /\ pubs = [i \in EventIds |-> 0]
  /\ agent = [s \in Sessions |-> NewAgentState]
  /\ summaries = <<>>

\* ------------------------------------------------------------------ inputs
\* (date, time) as a caller phrases them
S0900  == <<"2026-02-10", "09:00">>
S9am   == <<"Feb 10 2026", "9am">>
S0910  == <<"2026-02-10", "09:10">>
S0930  == <<"2026-02-10", "09:30">>
SNext  == <<"2026-02-11", "09:10">>
SBadDate == <<"someday", "09:00">>
SBadTime == <<"2026-02-10", "noonish">>
SNoDate  == <<None, "09:00">>
SNoTime  == <<"2026-02-10", None>>

\* book_appointment payloads: <<contact_number, name, <<date, time>>>>
BookReqs ==
  ({"", "c1"} \X {"Ann"} \X {S0900, S9am, S0930})
  \cup {<<"c1", "Ann", S0910>>, <<"c1", "Ann", SNext>>, <<"c2", "Ann", S0910>>,
        <<"c1", " ", S0900>>, <<"c1", "Ann", SBadDate>>, <<"", " ", SBadTime>>}

\* cancel_appointment payloads: <<contact_number, name, <<date, time>>>>
CancelReqs ==
  ({None, "c1"} \X {None} \X {S0900, S9am, S0910})
  \cup {<<"c1", "Ann", S0900>>, <<"c1", "Ann", S0930>>, <<"c2", None, S0910>>,
        <<None, None, SBadDate>>, <<"c1", None, SNoTime>>, <<None, None, SNoDate>>}

\* modify_appointment payloads:
\* <<<<contact_number, name>>, <<date, time>>, <<new_date, new_time>>>>
ModifyReqs ==
  ({<<"c1", None>>} \X {S0900, S0910, S0930} \X {S0910, S0930, SNext})
  \cup {<<<<None, None>>, S0900, S0910>>, <<<<None, None>>, S0930, SNext>>,
        <<<<"c1", "Ann">>, S0930, S0910>>, <<<<"c1", "Ann">>, S0900, SNext>>,
        <<<<None, None>>, SBadDate, SNoTime>>, <<<<"c1", None>>, S0900, SBadTime>>,
        <<<<"c1", None>>, S0900, SNoDate>>}

\* POST /appointments bodies: <<contact_number, name, date, time>>; the route
\* stores date and time as given
PostReqs == {"c1"} \X {"Bob"} \X {S0900, S9am, S0910}

RetrieveContacts == {None, "c1", "c2"}
EngineSessions == {"s1"}

Next ==
  \/ \E r \in PostReqs : post_appointment(r[1], r[2], r[3][1], r[3][2], FALSE)
        /\ UNCHANGED agent_side
  \/ \E sid \in EngineSessions, r \in BookReqs :
        book_appointment(sid, r[1], r[2], r[3][1], r[3][2], FALSE)
        /\ UNCHANGED agent_side
  \/ \E sid \in EngineSessions, c \in RetrieveContacts : retrieve_appointments(sid, c)
        /\ UNCHANGED agent_side
  \/ \E sid \in EngineSessions, r \in CancelReqs :
        cancel_appointment(sid, r[1], r[2], r[3][1], r[3][2])
        /\ UNCHANGED agent_side
  \/ \E sid \in EngineSessions, r \in ModifyReqs :
        modify_appointment(sid, r[1][1], r[1][2], r[2][1], r[2][2], r[3][1], r[3][2])
        /\ UNCHANGED agent_side

Spec == Init /\ [][Next]_vars

\* The fan-out: an observer connects and disconnects while tool calls of its
\* session run, so that several handlers are suspended in broadcast at once.  The booking requests are for one contact and one date at
\* times pairwise less than BufferMinutes apart.
RaceSlots == { <<"2026-02-10", "09:00">>, <<"2026-02-10", "09:10">>,
               <<"2026-02-10", "09:20">> }
BusSessions == {"s1"}
BusSockets == {"w1"}

NextBus ==
  \/ \E w \in BusSockets, sid \in BusSessions : ws_connect(w, sid)
        /\ UNCHANGED agent_side
  \/ \E w \in BusSockets : ws_disconnect(w)
        /\ UNCHANGED agent_side
  \/ \E t \in tasks : send_json(t)
        /\ UNCHANGED agent_side
  \/ \E t \in tasks : send_discarded(t)
        /\ UNCHANGED agent_side
  \/ \E t \in tasks : send_raises(t)
        /\ UNCHANGED agent_side
  \/ \E sid \in BusSessions : identify_user(sid, "c1")
        /\ UNCHANGED agent_side
  \/ \E sid \in BusSessions : fetch_slots(sid)
        /\ UNCHANGED agent_side
  \/ \E sid \in BusSessions, c \in {None, "c1"} : retrieve_appointments(sid, c)
        /\ UNCHANGED agent_side
  \/ \E sid \in BusSessions, sl \in RaceSlots :
        book_appointment(sid, "c1", "Ann", sl[1], sl[2], FALSE)
        /\ UNCHANGED agent_side

SpecBus == Init /\ [][NextBus]_vars

\* Two sessions side by side: callers of both sessions identify themselves,
\* book, cancel, modify and retrieve, with and without a contact number, with
\* requests that pass every check and requests that fail a later one.
IdentifyContacts == {None, "", "c1"}
SessionBookReqs == {<<"c1", "Ann", S0900>>, <<"c2", " ", S0900>>, <<None, "Ann", S0900>>}
SessionCancelReqs ==
  {<<"c1", None, S0900>>, <<"c2", None, SBadDate>>, <<None, None, S0900>>}
SessionModifyReqs ==
  {<<<<"c1", None>>, S0900, S0930>>, <<<<"c2", None>>, SNoDate, S0930>>,
   <<<<None, None>>, S0900, S0930>>}

NextSessions ==
  \/ \E sid \in Sessions, c \in IdentifyContacts : identify_user(sid, c)
        /\ UNCHANGED agent_side
  \/ \E sid \in Sessions, c \in {None, "c2"} : retrieve_appointments(sid, c)
        /\ UNCHANGED agent_side
  \/ \E sid \in Sessions, r \in SessionBookReqs :
        book_appointment(sid, r[1], r[2], r[3][1], r[3][2], FALSE)
        /\ UNCHANGED agent_side
  \/ \E sid \in Sessions, r \in SessionCancelReqs :
        cancel_appointment(sid, r[1], r[2], r[3][1], r[3][2])
        /\ UNCHANGED agent_side
  \/ \E sid \in Sessions, r \in SessionModifyReqs :
        modify_appointment(sid, r[1][1], r[1][2], r[2][1], r[2][2], r[3][1], r[3][2])
        /\ UNCHANGED agent_side

SpecSessions == Init /\ [][NextSessions]_vars

\* Two sessions and their observers: an observer subscribes to either session
\* and leaves again while callers of both sessions identify themselves and
\* clients post events of their own.
PushEvents ==
  {[id |-> NumEvents + 1, name |-> "client_note", status |-> st, detail |-> "pushed"] :
     st \in {"completed", "failed"}}
IsolationSockets == {"w1"}

NextIsolation ==
  \/ \E w \in IsolationSockets, sid \in Sessions : ws_connect(w, sid)
        /\ UNCHANGED agent_side
  \/ \E w \in IsolationSockets : ws_disconnect(w)
        /\ UNCHANGED agent_side
  \/ \E t \in tasks : send_json(t)
        /\ UNCHANGED agent_side
  \/ \E t \in tasks : send_discarded(t)
        /\ UNCHANGED agent_side
  \/ \E t \in tasks : send_raises(t)
        /\ UNCHANGED agent_side
  \/ \E sid \in Sessions, c \in IdentifyContacts : identify_user(sid, c)
        /\ UNCHANGED agent_side
  \/ \E sid \in Sessions, e \in PushEvents : push_tool_call(sid, e)
        /\ UNCHANGED agent_side
  \/ \E sid \in Sessions :
        book_appointment(sid, "c1", "Ann", SBadDate[1], SBadDate[2], FALSE)
        /\ UNCHANGED agent_side

SpecIsolation == Init /\ [][NextIsolation]_vars

\* One call handled by the agent: it identifies the caller or not, looks at
\* slots, books (a free slot, a slot within BufferMinutes of a booked one, a
\* blank name), cancels, moves, and ends the conversation, once or again; another
\* caller's record reaches the table through POST /appointments.
AgentSessions == {"s1"}
AgentBookReqs ==
  {<<"Ann", "c1", S0900, <<>>>>, <<"Ann", "c1", S0910, <<"morning">>>>,
   <<" ", "c1", S0900, <<>>>>}

NextAgent ==
  \/ \E r \in {<<"c1", "Bob", S0900>>} :
        post_appointment(r[1], r[2], r[3][1], r[3][2], FALSE)
        /\ UNCHANGED agent_side
  \/ \E sid \in AgentSessions : agent_identify_user(sid, "c1")
  \/ \E sid \in AgentSessions : agent_fetch_slots(sid)
  \/ \E sid \in AgentSessions, r \in AgentBookReqs :
        agent_book_appointment(sid, r[1], r[2], r[3][1], r[3][2], r[4])
  \/ \E sid \in AgentSessions :
        agent_cancel_appointment(sid, "c1", S0900[1], S0900[2], None)
  \/ \E sid \in AgentSessions :
        agent_modify_appointment(sid, "c1", S0900[1], S0900[2], "Ann", S0910[1], S0910[2])
  \/ \E sid \in AgentSessions, duplicate \in BOOLEAN :
        agent_end_conversation(sid, duplicate)
  \/ \E sid \in AgentSessions : agent_end_conversation_close(sid)

SpecAgent == Init /\ [][NextAgent]_vars

\* Several observers of one session: they subscribe and leave while the
\* session's caller looks at slots and ends the conversation.
FanoutSessions == {"s1"}

NextFanout ==
  \/ \E w \in Sockets, sid \in FanoutSessions : ws_connect(w, sid)
        /\ UNCHANGED agent_side
  \/ \E w \in Sockets : ws_disconnect(w)
        /\ UNCHANGED agent_side
  \/ \E t \in tasks : send_json(t)
        /\ UNCHANGED agent_side
  \/ \E t \in tasks : send_discarded(t)
        /\ UNCHANGED agent_side
  \/ \E t \in tasks : send_raises(t)
        /\ UNCHANGED agent_side
  \/ \E sid \in FanoutSessions : fetch_slots(sid)
        /\ UNCHANGED agent_side
  \/ \E sid \in FanoutSessions : end_conversation(sid)
        /\ UNCHANGED agent_side

SpecFanout == Init /\ [][NextFanout]_vars

\* The repository may refuse a write: the insert of book_appointment and the
\* update of cancel_appointment and modify_appointment either go through or
\* raise.
StorageSessions == {"s1"}
StorageBookReqs ==
  {<<"c1", "Ann", S0900>>, <<"c1", "Ann", S0910>>, <<"c1", "Ann", S0930>>,
   <<"c2", "Bob", S0900>>, <<"c1", "Ann", SBadDate>>}
StorageCancelReqs == {<<"c1", None, S0900>>, <<"c1", None, SNoTime>>}
StorageModifyReqs == {<<<<"c1", None>>, S0900, S0930>>, <<<<"c1", None>>, S0930, S0910>>}

NextStorage ==
  \/ \E sid \in StorageSessions, r \in StorageBookReqs, reject \in BOOLEAN :
        book_appointment(sid, r[1], r[2], r[3][1], r[3][2], reject)
        /\ UNCHANGED agent_side
  \/ \E sid \in StorageSessions, r \in StorageCancelReqs :
        cancel_appointment(sid, r[1], r[2], r[3][1], r[3][2])
        /\ UNCHANGED agent_side
  \/ \E sid \in StorageSessions, r \in StorageCancelReqs :
        cancel_appointment_raises(sid, r[1], r[2], r[3][1], r[3][2])
        /\ UNCHANGED agent_side
  \/ \E sid \in StorageSessions, r \in StorageModifyReqs :
        modify_appointment(sid, r[1][1], r[1][2], r[2][1], r[2][2], r[3][1], r[3][2])
        /\ UNCHANGED agent_side
  \/ \E sid \in StorageSessions, r \in StorageModifyReqs :
        modify_appointment_raises(sid, r[1][1], r[1][2], r[2][1], r[2][2], r[3][1], r[3][2])
        /\ UNCHANGED agent_side
  \/ \E sid \in StorageSessions : retrieve_appointments(sid, "c1")
        /\ UNCHANGED agent_side

SpecStorage == Init /\ [][NextStorage]_vars

\* The slots of one day and the next: bookings at the buffer's edge, across
\* midnight, for two contacts, on top of rows that are cancelled or in
\* conflict, and date/time inputs that are not canonical.
S0005Next  == <<"2026-02-11", "00:05">>
S2350      == <<"2026-02-10", "23:50">>
SAmbiguous == <<"02/10/2026", "9">>
SlotSessions == {"s1"}

\* POST /appointments bodies: <<contact_number, name, <<date, time>>, status>>
SlotPostReqs ==
  {<<"c1", "Ann", S0900, "booked">>, <<"c1", "Ann", S0910, "conflict">>,
   <<"c1", "Ann", S2350, "booked">>, <<"c2", "Bob", S0910, "booked">>}

SlotBookReqs ==
  {<<"c1", "Ann", S0900>>, <<"c1", "Ann", S0910>>, <<"c1", "Ann", S0930>>,
   <<"c1", "Ann", S9am>>, <<"c1", "Ann", S0005Next>>, <<"c1", "Ann", SAmbiguous>>,
   <<"c1", "Ann", SBadDate>>, <<"c1", "Ann", SBadTime>>}

SlotCancelReqs == {<<"c1", None, S0900>>, <<"c1", None, S9am>>}

SlotModifyReqs ==
  {<<<<"c1", None>>, S0900, S0910>>, <<<<"c1", None>>, S0930, S0910>>,
   <<<<"c1", None>>, S0900, S0005Next>>}

NextSlots ==
  \/ \E r \in SlotPostReqs : post_appointment_status(r[1], r[2], r[3][1], r[3][2], r[4])
        /\ UNCHANGED agent_side
  \/ \E sid \in SlotSessions, r \in SlotBookReqs :
        book_appointment(sid, r[1], r[2], r[3][1], r[3][2], FALSE)
        /\ UNCHANGED agent_side
  \/ \E sid \in SlotSessions, r \in SlotCancelReqs :
        cancel_appointment(sid, r[1], r[2], r[3][1], r[3][2])
        /\ UNCHANGED agent_side
  \/ \E sid \in SlotSessions, r \in SlotModifyReqs :
        modify_appointment(sid, r[1][1], r[1][2], r[2][1], r[2][2], r[3][1], r[3][2])
        /\ UNCHANGED agent_side

SpecSlots == Init /\ [][NextSlots]_vars

\* -------------------------------------------------------------- properties
\* a booked row of contact c on that date less than BufferMinutes from that
\* time, other than the row with id `except`
NearbyBooked(rows, c, date, time, except) ==
  \E a \in rows :
     /\ a.id # except
     /\ a.contact_number = c
     /\ a.status = "booked"
     /\ a.date = date
     /\ Abs(ParseTime(a.time) - ParseTime(time)) < BufferMinutes

\* the step returns the envelope of a call of that tool
Returns(tool) == resp' # resp /\ resp'.tool = tool

\* the contact a tool call acts for: the one it supplies, else the session's
Acting(sid, contact_number) ==
  IF Falsy(contact_number) THEN contact[sid] ELSE contact_number

C2_OneWinner ==
  [][ /\ Cardinality({a \in repo' : a.status = "booked"})
           = (IF \E sid \in BusSessions : \E i \in 1..Len(log'[sid]) :
                    log'[sid][i].name = "book_appointment"
              THEN 1 ELSE 0)
      /\ \A sid \in BusSessions, sl \in RaceSlots :
           book_appointment(sid, "c1", "Ann", sl[1], sl[2], FALSE)
           => \E e \in {resp'} \cup {t.env : t \in tasks'} :
                 /\ e.tool = "book_appointment"
                 /\ e.event.id = Len(log'[sid])
                 /\ e.event.status = "completed"
                 /\ IF {a \in repo : a.status = "booked"} = {}
                    THEN e.appt.status = "booked" /\ repo' = {e.appt}
                    ELSE e.appt.status = "conflict" /\ repo' = repo
    ]_vars

\* two book_appointment handlers are suspended in broadcast at once, one
\* holding the booked appointment and the other a conflict
C2_Witness ==
  \E t, u \in tasks :
     /\ t.kind = "tool_call" /\ u.kind = "tool_call"
     /\ t.env.tool = "book_appointment" /\ u.env.tool = "book_appointment"
     /\ t.env.appt.status = "booked" /\ u.env.appt.status = "conflict"
     /\ Cardinality({a \in repo : a.status = "booked"}) = 1

\* C3: a book_appointment call with a non-blank name, a contact number and a
\* parseable date and time, made when the contact has no booked appointment on
\* that date within BufferMinutes, returns the appointment with status booked
\* and stores it; no row ever leaves the table or changes contact, and
\* retrieve_appointments returns every row of the contact, so every later
\* retrieval includes it.
C3_BookThenRetrieve ==
  [][ /\ Returns("book_appointment") =>
         \A sid \in EngineSessions, r \in BookReqs :
           LET c == Acting(sid, r[1])
               n == normalize_date_time(r[3][1], r[3][2])
           IN (/\ ~Falsy(c) /\ r[2] # " " /\ NormalizeOk(r[3][1], r[3][2])
               /\ ~NearbyBooked(repo, c, n.date, n.time, 0)
               /\ book_appointment(sid, r[1], r[2], r[3][1], r[3][2], FALSE))
              => /\ resp'.event.status = "completed"
                 /\ resp'.appt = Appt(resp'.appt.id, c, r[2], n.date, n.time, "booked")
                 /\ resp'.appt \in repo'
                 /\ resp'.appt.id \notin {a.id : a \in repo}
      /\ \A a \in repo : \E b \in repo' :
            b.id = a.id /\ b.contact_number = a.contact_number
      /\ Returns("retrieve_appointments") =>
         \A sid \in EngineSessions, c \in RetrieveContacts :
           (~Falsy(c) /\ retrieve_appointments(sid, c))
           => resp'.appts = {a \in repo' : a.contact_number = c}
    ]_vars

\* a retrieval has returned an appointment that book_appointment stored
C3_Witness ==
  /\ resp.tool = "retrieve_appointments"
  /\ \E a \in resp.appts : a.name = "Ann" /\ a.status = "booked" /\ a \in repo

C5_CancelledStays ==
  [][ /\ (Returns("cancel_appointment") /\ resp'.event.status = "completed") =>
         \A sid \in EngineSessions, r \in CancelReqs :
           LET c == Acting(sid, r[1])
               n == normalize_date_time(r[3][1], r[3][2])
           IN (/\ cancel_appointment(sid, r[1], r[2], r[3][1], r[3][2]))
              => \E x \in repo :
                    /\ x.contact_number = c /\ x.date = n.date /\ x.time = n.time
                    /\ r[2] = None \/ x.name = r[2]
                    /\ [x EXCEPT !.status = "cancelled"] \in repo'
      /\ \A a \in repo :
           a.status = "cancelled"
           => \E b \in repo' : /\ b.id = a.id
                               /\ b.contact_number = a.contact_number
                               /\ b.status = "cancelled"
      /\ Returns("retrieve_appointments") =>
         \A sid \in EngineSessions, c \in RetrieveContacts :
           (~Falsy(c) /\ retrieve_appointments(sid, c))
           => \A a \in repo' :
                 (a.contact_number = c /\ a.status = "cancelled") => a \in resp'.appts
      /\ \A a \in repo' :
           a.status = "cancelled" => a \notin booked_appointments(repo', a.contact_number)
      /\ Returns("book_appointment") =>
         \A sid \in EngineSessions, r \in BookReqs :
           LET c == Acting(sid, r[1])
               n == normalize_date_time(r[3][1], r[3][2])
           IN (/\ ~Falsy(c) /\ r[2] # " " /\ NormalizeOk(r[3][1], r[3][2])
               /\ ~NearbyBooked(repo, c, n.date, n.time, 0)
               /\ \E a \in repo : /\ a.status = "cancelled"
                                  /\ a.contact_number = c
                                  /\ a.date = n.date /\ a.time = n.time
               /\ book_appointment(sid, r[1], r[2], r[3][1], r[3][2], FALSE))
              => resp'.appt.status = "booked" /\ resp'.appt \in repo'
    ]_vars

\* a retrieval has returned a cancelled appointment
C5_Witness ==
  /\ resp.tool = "retrieve_appointments"
  /\ \E a \in resp.appts : a.status = "cancelled" /\ a \in repo

\* C6: cancel_appointment and modify_appointment return a completed event
\* only when the contact has a booked appointment with the canonical date and
\* time (and the name, when one is given); otherwise the event is failed and
\* the table is unchanged.
C6_CompletedNeedsBooked ==
  [][ /\ Returns("cancel_appointment") =>
         \A sid \in EngineSessions, r \in CancelReqs :
           LET c == Acting(sid, r[1])
               n == normalize_date_time(r[3][1], r[3][2])
               match == /\ ~Falsy(c) /\ ~Falsy(r[3][1]) /\ ~Falsy(r[3][2])
                        /\ NormalizeOk(r[3][1], r[3][2])
                        /\ \E x \in repo :
                              /\ x.contact_number = c /\ x.status = "booked"
                              /\ x.date = n.date /\ x.time = n.time
                              /\ r[2] = None \/ x.name = r[2]
           IN (/\ ~match
               /\ cancel_appointment(sid, r[1], r[2], r[3][1], r[3][2]))
              => resp'.event.status = "failed" /\ repo' = repo
      /\ Returns("modify_appointment") =>
         \A sid \in EngineSessions, r \in ModifyReqs :
           LET c == Acting(sid, r[1][1])
               n == normalize_date_time(r[2][1], r[2][2])
               match == /\ ~Falsy(c) /\ ~Falsy(r[2][1]) /\ ~Falsy(r[2][2])
                        /\ NormalizeOk(r[2][1], r[2][2])
                        /\ \E x \in repo :
                              /\ x.contact_number = c /\ x.status = "booked"
                              /\ x.date = n.date /\ x.time = n.time
                              /\ r[1][2] = None \/ x.name = r[1][2]
           IN (/\ ~match
               /\ modify_appointment(sid, r[1][1], r[1][2], r[2][1], r[2][2],
                                     r[3][1], r[3][2]))
              => resp'.event.status = "failed" /\ repo' = repo
    ]_vars

Failed(detail) == resp'.event.status = "failed" /\ resp'.event.detail = detail

\* C8: book_appointment, cancel_appointment and modify_appointment check, in
\* this order, that a contact is known (supplied or stored for the session),
\* that the required fields are present, that every date and time parses, and
\* only then the table; a call failing several of these reports the earliest,
\* so a missing phone number is reported before anything else.  (For each
\* request of a returning tool: the response is the one the order prescribes,
\* or the step is not that call.)
C8_PreconditionOrder ==
  [][ /\ Returns("book_appointment") =>
         \A sid \in EngineSessions, r \in BookReqs :
           \/ IF Falsy(Acting(sid, r[1])) THEN Failed(PhoneNotConfirmed)
              ELSE IF r[2] = " " THEN Failed(NameMissing)
              ELSE IF ~NormalizeOk(r[3][1], r[3][2]) THEN Failed(InvalidDateTime)
              ELSE resp'.event.status = "completed"
           \/ ~book_appointment(sid, r[1], r[2], r[3][1], r[3][2], FALSE)
      /\ Returns("cancel_appointment") =>
         \A sid \in EngineSessions, r \in CancelReqs :
           \/ IF Falsy(Acting(sid, r[1])) THEN Failed(PhoneNotConfirmed)
              ELSE IF Falsy(r[3][1]) \/ Falsy(r[3][2]) THEN Failed(DateTimeMissing)
              ELSE IF ~NormalizeOk(r[3][1], r[3][2]) THEN Failed(InvalidDateTime)
              ELSE Failed(NoMatch) \/ resp'.event.status = "completed"
           \/ ~cancel_appointment(sid, r[1], r[2], r[3][1], r[3][2])
      /\ Returns("modify_appointment") =>
         \A sid \in EngineSessions, r \in ModifyReqs :
           \/ IF Falsy(Acting(sid, r[1][1])) THEN Failed(PhoneNotConfirmed)
              ELSE IF Falsy(r[2][1]) \/ Falsy(r[2][2]) \/ Falsy(r[3][1]) \/ Falsy(r[3][2])
                   THEN Failed(DateTimeMissing)
              ELSE IF ~NormalizeOk(r[2][1], r[2][2]) \/ ~NormalizeOk(r[3][1], r[3][2])
                   THEN Failed(InvalidDateTime)
              ELSE Failed(NoMatch) \/ resp'.event.status = "completed"
           \/ ~modify_appointment(sid, r[1][1], r[1][2], r[2][1], r[2][2],
                                  r[3][1], r[3][2])
    ]_vars

\* a booking in a session whose contact is known has been refused for its
\* blank name
C8_Witness ==
  /\ resp.tool = "book_appointment"
  /\ resp.event.status = "failed"
  /\ resp.event.detail = NameMissing
  /\ contact[resp.sid] = "c1"

\* C9: a tool call that returns a failed event leaves the table as it was,
\* a call whose date or time does not parse included.
C9_FailedChangesNothing ==
  [][ (resp' # resp /\ resp'.event.status = "failed") => repo' = repo ]_vars

\* a call has failed for want of a matching appointment while the table holds
\* appointments
C9_Witness ==
  /\ resp.event.status = "failed"
  /\ resp.event.detail \in {NoMatch, InvalidDateTime}
  /\ repo # {}

\* occurrences of an event id in a session's log
Count(events, id) == Cardinality({i \in 1..Len(events) : events[i].id = id})

\* C10: when a tool call returns a completed event, that event is in its
\* session's log exactly once, in no other session's log, and exactly one
\* tool_call broadcast was started for it; a call that records its event while
\* its session has no subscriber sends nothing, suspends nowhere and returns
\* its completed event in the same step.
C10_OneEventOnePublish ==
  [][ /\ (resp' # resp /\ resp'.event.status = "completed")
         => /\ Count(log'[resp'.sid], resp'.event.id) = 1
            /\ \A s \in Sessions \ {resp'.sid} : Count(log'[s], resp'.event.id) = 0
            /\ pubs'[resp'.event.id] = 1
      /\ \A sid \in Sessions : Len(log'[sid]) \in {Len(log[sid]), Len(log[sid]) + 1}
      /\ \A sid \in Sessions :
           (Len(log'[sid]) # Len(log[sid]) /\ conns[sid] = <<>>)
           => /\ inbox' = inbox /\ tasks' = tasks
              /\ resp' # resp
              /\ resp'.sid = sid
              /\ resp'.event = log'[sid][Len(log'[sid])]
    ]_vars

\* a call has returned its completed event after the one tool_call message
\* for it reached the subscriber
C10_Witness ==
  /\ resp.event.status = "completed"
  /\ Count(log[resp.sid], resp.event.id) = 1
  /\ Cardinality({i \in 1..Len(inbox["w1"]) :
                    inbox["w1"][i] = [type |-> "tool_call", id |-> resp.event.id,
                                      about |-> None]}) = 1

\* C11: the event log of a session is append-only.  In every step, whatever
\* the operation and whichever session it is for, the log a session had before
\* the step is a prefix of the log it has after the step: no recorded event is
\* removed, reordered or changed.
C11_LogAppendOnly ==
  [][\A s \in Sessions :
        /\ Len(log'[s]) >= Len(log[s])
        /\ SubSeq(log'[s], 1, Len(log[s])) = log[s]]_vars

\* both sessions have a log, one of them of two events of different tools, the
\* later one posted by a client
C11_Witness ==
  \E s \in Sessions :
    /\ Len(log[s]) = 2
    /\ log[s][1].name = "identify_user"
    /\ log[s][2].name = "client_note"
    /\ resp.tool = "push_tool_call"

\* the stored contact number a call supplying contact_number must leave
StoredAfter(sid, contact_number) ==
  IF Falsy(contact_number) THEN contact[sid] ELSE contact_number

\* C12: after any identify_user, book_appointment, cancel_appointment or
\* modify_appointment call that supplies a non-empty contact number c, the
\* session's stored contact number equals c, whether or not an appointment
\* exists for c and whether or not the call then fails a later precondition;
\* a call that supplies no contact number leaves the stored one unchanged.
C12_ContactStored ==
  [][\A sid \in Sessions :
        /\ \A c \in IdentifyContacts :
              identify_user(sid, c) => contact'[sid] = StoredAfter(sid, c)
        /\ \A r \in SessionBookReqs :
              book_appointment(sid, r[1], r[2], r[3][1], r[3][2], FALSE)
                => contact'[sid] = StoredAfter(sid, r[1])
        /\ \A r \in SessionCancelReqs :
              cancel_appointment(sid, r[1], r[2], r[3][1], r[3][2])
                => contact'[sid] = StoredAfter(sid, r[1])
        /\ \A r \in SessionModifyReqs :
              modify_appointment(sid, r[1][1], r[1][2], r[2][1], r[2][2], r[3][1], r[3][2])
                => contact'[sid] = StoredAfter(sid, r[1][1])]_vars

\* a session identified as c1 whose last call, a booking with contact c2 and
\* a blank name, failed on the name: no appointment exists for c2, and c2 is
\* the stored contact
C12_Witness ==
  /\ Len(log["s1"]) > 0
  /\ log["s1"][1].name = "identify_user"
  /\ log["s1"][1].detail = "Received"
  /\ resp.tool = "book_appointment"
  /\ resp.sid = "s1"
  /\ resp.event.status = "failed"
  /\ resp.event.detail = NameMissing
  /\ list_by_contact("c2") = {}
  /\ contact["s1"] = "c2"

\* C13: retrieve_appointments never mutates state.  Apart from the audit event
\* it appends, every appointment record and the session's stored contact
\* number are the same after the call as before it.
C13_RetrieveReadOnly ==
  [][Returns("retrieve_appointments") => repo' = repo /\ contact' = contact]_vars

\* C14: retrieve_appointments needs nothing beyond confirmed identity.  When
\* the session already has a stored contact number, a call that supplies no
\* contact number returns a completed event with the appointments of the
\* stored contact.
C14_RetrieveStoredContact ==
  [][\A sid \in EngineSessions, c \in {None, ""} :
        (~Falsy(contact[sid]) /\ retrieve_appointments(sid, c))
          => /\ resp'.event.status = "completed"
             /\ resp'.appts = list_by_contact(contact[sid])]_vars

\* the rows of the summaries table for one session, oldest first
SummariesOf(rows, sid) == SelectSeq(rows, LAMBDA r : r.session_id = sid)

\* C15: calling end_conversation twice for the same session with no tool call
\* in between produces two summaries of identical content (the timestamp
\* aside); the second overwrites the first in the summary store, and its
\* booked-appointment list contains each booked appointment once.  Stated on
\* the step in which the agent's second end_conversation posts its summary,
\* right after the first one returned: the post succeeds, the store then holds
\* one summary for the session, equal to the one it held, with no appointment
\* listed twice.
C15_EndTwice ==
  [][\A sid \in AgentSessions, duplicate \in BOOLEAN :
        (/\ resp.tool = "end_conversation"
         /\ resp.sid = sid
         /\ SummariesOf(summaries, sid) # <<>>
         /\ agent_end_conversation(sid, duplicate))
        => LET before == SummariesOf(summaries, sid)
               after == SummariesOf(summaries', sid)
           IN /\ resp'.tool = "create_summary"
              /\ Len(after) = 1
              /\ after[1] = before[Len(before)]
              /\ \A i, j \in 1..Len(after[1].booked_appointments) :
                    after[1].booked_appointments[i] = after[1].booked_appointments[j] => i = j]_vars

\* C16: every end_conversation invocation, whatever tool calls preceded it in
\* the session (none included), results in a ConversationSummary persisted for
\* the session, a session_closed notification broadcast to the session's
\* subscribers and a completed end_conversation event in the session's log.
\* Stated on the step in which the agent's end_conversation gets its envelope
\* back.
C16_EndAlwaysSummarises ==
  [][Returns("end_conversation") =>
       LET sid == resp'.sid
       IN /\ SummariesOf(summaries', sid) # <<>>
          /\ \E i \in 1..Len(log'[sid]) :
                /\ log'[sid][i].name = "end_conversation"
                /\ log'[sid][i].status = "completed"
          /\ \A w \in Range(conns'[sid]) :
                \E i \in 1..Len(inbox'[w]) : inbox'[w][i].type = "session_closed"]_vars

\* C17: the booked_appointments list of every persisted ConversationSummary
\* equals the set of repository records with status booked for the contact of
\* that conversation at the time the summary is persisted; it never contains
\* an appointment whose repository status is conflict or cancelled, nor one
\* the repository does not hold.  Stated on the step that inserts the row; the
\* contact of the conversation is the summary's, or the session's stored one
\* when the summary names none.
C17_SummaryListsBooked ==
  [][Len(summaries') = Len(summaries) + 1 =>
       LET row == summaries'[Len(summaries')]
           c == IF Falsy(row.contact_number)
                THEN contact[row.session_id] ELSE row.contact_number
       IN /\ Range(row.booked_appointments) = booked_appointments(repo, c)
          /\ \A a \in Range(row.booked_appointments) :
                \E b \in repo : b.id = a.id /\ b = a /\ b.status = "booked"]_vars

\* event e has been recorded, and so published, in some session
Published(e) == \E s \in Sessions : \E i \in 1..Len(log[s]) : log[s][i].id = e

\* websocket w has been sent the tool_call message of event e
Received(w, e) ==
  \E i \in 1..Len(inbox[w]) : inbox[w][i].type = "tool_call" /\ inbox[w][i].id = e

\* the broadcast of task t ends in this step
BroadcastEnds(t) ==
  /\ t \in tasks
  /\ ~\E u \in tasks' : u.kind = t.kind /\ u.id = t.id /\ u.owner = t.owner

\* C18: a subscriber that connects to a session after event E1 was published
\* never receives E1, and receives every event published for that session
\* from the moment it is connected until it disconnects.  The first half: an
\* event published while the socket is not yet accepted is never in its
\* inbox.  The second half: when the broadcast of an event ends, every socket
\* it still had to serve and that is still connected has been sent the event.
C18_LateSubscriber ==
  /\ \A w \in Sockets, e \in EventIds :
        []((sock[w] = "new" /\ Published(e)) => []~Received(w, e))
  /\ [][\A t \in tasks :
          (t.kind = "tool_call" /\ BroadcastEnds(t))
            => \A w \in Range(t.todo) : sock'[w] = "open" => Received(w, t.id)']_vars

\* C19: a slow or disconnected subscriber never blocks publication.  When
\* sending to one subscriber of a session fails, every other subscriber of
\* that session still receives the event and the tool call that published it
\* still completes and returns its envelope: after a send to a socket that has
\* gone, the broadcast goes on with the sockets that remain, and after the
\* last one the handler returns.
C19_FailedSendDoesNotBlock ==
  [][\A t \in tasks :
        (/\ t.kind = "tool_call"
         /\ sock[Head(t.todo)] # "open"
         /\ tasks' # tasks
         /\ t \notin tasks')
        => IF Len(t.todo) > 1
           THEN [t EXCEPT !.todo = Tail(@)] \in tasks'
           ELSE resp' # resp /\ resp'.event.id = t.id]_vars

\* every session but sid keeps its event log and its stored contact number
OthersKeep(sid) ==
  \A b \in Sessions \ {sid} : log'[b] = log[b] /\ contact'[b] = contact[b]

\* C20: sessions share no mutable session state.  A tool call or subscription
\* made with session id A never changes the event log or the stored contact
\* number of a different session B, and no message published for A is
\* delivered to a subscriber of B: a socket is only ever sent messages of
\* broadcasts of the session it subscribed to, and the events it has been
\* sent are events of that session's log.
C20_SessionsIsolated ==
  [][/\ \A sid \in Sessions :
          /\ \A c \in IdentifyContacts : identify_user(sid, c) => OthersKeep(sid)
          /\ \A e \in PushEvents : push_tool_call(sid, e) => OthersKeep(sid)
          /\ \A w \in IsolationSockets :
                ws_connect(w, sid) => log' = log /\ contact' = contact
      /\ \A t \in tasks :
          send_json(t) => /\ Head(t.todo) \in Range(conns[t.sid])
                          /\ \A b \in Sessions \ {t.sid} : Head(t.todo) \notin Range(conns[b])
      /\ \A b \in Sessions : \A w \in Range(conns'[b]), e \in EventIds :
          Received(w, e)' => \E i \in 1..Len(log'[b]) : log'[b][i].id = e]_vars

\* both sessions have recorded an event; the observer of s1 was sent the one
\* of s1 and, still connected when s2 published a later one, was not sent
\* that; s1 has a stored contact and s2 has none
C20_Witness ==
  /\ sock["w1"] = "open"
  /\ conns["s1"] = <<"w1">>
  /\ tasks = {}
  /\ Len(log["s1"]) > 0
  /\ Len(log["s2"]) > 0
  /\ Received("w1", log["s1"][1].id)
  /\ log["s2"][1].id > log["s1"][1].id
  /\ ~Received("w1", log["s2"][1].id)
  /\ contact["s1"] = "c1"
  /\ contact["s2"] = None

\* the tool routes
ToolNames ==
  {"identify_user", "fetch_slots", "book_appointment", "retrieve_appointments",
   "cancel_appointment", "modify_appointment", "end_conversation"}

\* C21: no domain or storage error propagates as an unhandled fault.  Every
\* tool call, whether a field is missing, the date/time is unparseable, the
\* target appointment is not found or the repository update of cancel or
\* modify fails, answers with an envelope whose event has a status and a
\* detail, status failed in those cases, never with a raw exception.
C21_NoUnhandledFault ==
  [][(resp' # resp /\ resp'.tool \in ToolNames)
       => /\ resp'.event.status \in {"completed", "failed"}
          /\ resp'.event.detail # None]_vars

AmbiguousInputs == {"02/10/2026", "9"}
\* date or time strings with no reading
UnparseableInputs == {"someday", "noonish"}
\* a pair already in the form YYYY-MM-DD, HH:MM
Canonical(pair) == pair \in {S0900, S0910, S0930, S0005Next}

\* C23: the date/time pair of a book_appointment call is normalised to
\* (YYYY-MM-DD, HH:MM): ("Feb 10 2026", "9am") becomes ("2026-02-10",
\* "09:00"), a pair already canonical is kept as it is, and a pair with an
\* ambiguous or unparseable date or time is refused with the invalid
\* date/time failure instead of being given a reading.
C23_NormalizeRejectsAmbiguous ==
  [][Returns("book_appointment") =>
       \A sid \in SlotSessions, r \in SlotBookReqs :
         book_appointment(sid, r[1], r[2], r[3][1], r[3][2], FALSE)
         => /\ r[3] = S9am
                => resp'.appt.date = "2026-02-10" /\ resp'.appt.time = "09:00"
            /\ Canonical(r[3])
                => resp'.appt.date = r[3][1] /\ resp'.appt.time = r[3][2]
            /\ (\/ r[3][1] \in AmbiguousInputs \cup UnparseableInputs
                \/ r[3][2] \in AmbiguousInputs \cup UnparseableInputs)
                => /\ resp'.event.status = "failed"
                   /\ resp'.event.detail = InvalidDateTime]_vars

\* C24: when book_appointment finds a conflict, its event is completed and
\* the candidate is stored in the table with status conflict, where a later
\* retrieve_appointments of the contact finds it.
C24_BookConflictPersisted ==
  [][(Returns("book_appointment") /\ resp'.appt.status = "conflict")
       => /\ resp'.event.status = "completed"
          /\ \E a \in repo' :
                /\ a.contact_number = resp'.appt.contact_number
                /\ a.date = resp'.appt.date /\ a.time = resp'.appt.time
                /\ a.status = "conflict"]_vars

\* C25: when modify_appointment finds the new date/time in conflict with
\* another booked appointment of the contact, its event is completed and the
\* target is stored in the table with status conflict, where a later
\* retrieve_appointments finds it.
C25_ModifyConflictPersisted ==
  [][(Returns("modify_appointment") /\ resp'.appt.status = "conflict")
       => /\ resp'.event.status = "completed"
          /\ \E a \in repo' :
                /\ a.id = resp'.appt.id
                /\ a.contact_number = resp'.appt.contact_number
                /\ a.status = "conflict"]_vars

\* C26: a book_appointment call that passes its checks is answered with
\* status conflict if and only if the table holds a row of the same contact
\* with the candidate's canonical date, status booked and a time of day less
\* than BufferMinutes from the candidate's, and with status booked otherwise:
\* a row exactly BufferMinutes away, a row that is cancelled or in conflict, a
\* row of another contact and a row late on the day before never block it.
C26_ConflictIffNearbyBooked ==
  [][Returns("book_appointment") =>
       \A sid \in SlotSessions, r \in SlotBookReqs :
         LET c == Acting(sid, r[1])
             n == normalize_date_time(r[3][1], r[3][2])
         IN (/\ BookChain(c, r[2], r[3][1], r[3][2]) = "ok"
             /\ book_appointment(sid, r[1], r[2], r[3][1], r[3][2], FALSE))
            => /\ resp'.appt.status = "conflict"
                    <=> NearbyBooked(repo, c, n.date, n.time, 0)
               /\ resp'.appt.status = "booked"
                    <=> ~NearbyBooked(repo, c, n.date, n.time, 0)
               /\ resp'.appt.status = "booked" => resp'.appt \in repo']_vars

\* a 00:05 booking has gone through the day after a booked 23:50 appointment
\* of the same contact
C26_Witness ==
  /\ resp.tool = "book_appointment"
  /\ resp.appt.status = "booked" /\ resp.appt \in repo
  /\ resp.appt.date = "2026-02-11" /\ resp.appt.time = "00:05"
  /\ \E a \in repo : /\ a.contact_number = resp.appt.contact_number
                      /\ a.status = "booked"
                      /\ a.date = "2026-02-10" /\ a.time = "23:50"

\* C27: modify_appointment leaves the row it moves out of its conflict check:
\* when the target is booked, the new time is on the target's date and less
\* than BufferMinutes from the target's own time, and no other booked row of
\* the contact is less than BufferMinutes from the new time, the call
\* completes and the row has the new date and time and status booked.
C27_ModifyIgnoresSelf ==
  [][Returns("modify_appointment") =>
       \A sid \in SlotSessions, r \in SlotModifyReqs :
         LET c == Acting(sid, r[1][1])
             n == normalize_date_time(r[2][1], r[2][2])
             m == normalize_date_time(r[3][1], r[3][2])
         IN (/\ ModifyChain(c, r[2][1], r[2][2], r[3][1], r[3][2]) = "ok"
             /\ modify_appointment(sid, r[1][1], r[1][2], r[2][1], r[2][2], r[3][1], r[3][2]))
            => \A target \in Matches(list_by_contact(c), n.date, n.time, r[1][2]) :
                 (/\ target.id = resp'.appt.id
                  /\ target.status = "booked"
                  /\ m.date = target.date
                  /\ Abs(ParseTime(m.time) - ParseTime(target.time)) < BufferMinutes
                  /\ ~NearbyBooked(repo, c, m.date, m.time, target.id))
                 => /\ resp'.event.status = "completed"
                    /\ resp'.appt = [target EXCEPT !.date = m.date, !.time = m.time]
                    /\ resp'.appt.status = "booked"
                    /\ repo' = (repo \ {target}) \cup {resp'.appt}]_vars

\* a booked appointment has been moved by ten minutes on its own date
C27_Witness ==
  /\ resp.tool = "modify_appointment" /\ resp.event.status = "completed"
  /\ resp.appt.status = "booked" /\ resp.appt \in repo
  /\ resp.appt.date = "2026-02-10" /\ resp.appt.time = "09:10"
  /\ Len(log["s1"]) = 1 /\ log["s1"][1].name = "modify_appointment"

\* C28: a completed cancel_appointment changes the status field of exactly
\* one row and nothing else, a completed modify_appointment that is not a
\* conflict changes the date and time fields of exactly one row and nothing
\* else, and no step removes a row or changes the id, contact number or name
\* of a row.
C28_OnlyOneRecordChanges ==
  [][/\ (Returns("cancel_appointment") /\ resp'.event.status = "completed")
        => \E t \in repo :
              /\ t.status # "cancelled"
              /\ repo' = (repo \ {t}) \cup {[t EXCEPT !.status = "cancelled"]}
     /\ (/\ Returns("modify_appointment") /\ resp'.event.status = "completed"
         /\ resp'.appt.status # "conflict")
        => \E t \in repo :
              /\ t.id = resp'.appt.id
              /\ t.date # resp'.appt.date \/ t.time # resp'.appt.time
              /\ repo' = (repo \ {t}) \cup
                          {[t EXCEPT !.date = resp'.appt.date, !.time = resp'.appt.time]}
     /\ \A a \in repo : \E b \in repo' :
           b.id = a.id /\ b.contact_number = a.contact_number /\ b.name = a.name]_vars

\* C29: the only "connected" status message a subscriber is ever sent is the
\* one of its own connection, and it is the first message it is sent,
\* however connections and tool-call publishes of the session interleave.
C29_OneConnectedMessage ==
  \A w \in Sockets : \A i \in 1..Len(inbox[w]) :
     /\ inbox[w][i].type = "status" => (i = 1 /\ inbox[w][i].about = w)
     /\ i = 1 => inbox[w][i].type = "status"

\* C30: every event of every session's log has status completed; a call that
\* returns an event of status failed, from a tool route or from POST
\* /session/{session_id}/tools, adds nothing to a log and starts no
\* broadcast, and no subscriber is sent anything in that step.
C30_FailedNeverPublished ==
  [][/\ \A s \in Sessions : \A i \in 1..Len(log'[s]) : log'[s][i].status = "completed"
     /\ (resp' # resp /\ resp'.event.status = "failed")
        => /\ log' = log /\ pubs' = pubs
           /\ tasks' = tasks /\ inbox' = inbox]_vars

\* an unparseable booking has been answered with a failed event while a
\* subscriber of the session is connected; it has only its status message
C30_Witness ==
  /\ resp.tool = "book_appointment" /\ resp.event.status = "failed"
  /\ resp.event.detail = InvalidDateTime
  /\ log[resp.sid] = <<>>
  /\ \E w \in IsolationSockets :
        /\ sock[w] = "open" /\ conns[resp.sid] = <<w>>
        /\ Len(inbox[w]) = 1 /\ inbox[w][1].type = "status"

\* the tool_call messages sent to websocket w, in the order they were sent
ToolCallsOf(w) == SelectSeq(inbox[w], LAMBDA m : m.type = "tool_call")

\* C31: the tool_call messages a subscriber is sent are, in the same order,
\* a contiguous part of its session's log: any two it is sent one after the
\* other are neighbours, in that order, in the log, also when the tool calls
\* of the session run concurrently.
C31_SubscriberSeesLogOrder ==
  \A w \in Sockets :
     \A k \in 1..(Len(ToolCallsOf(w)) - 1) :
        \E s \in Sessions : \E i \in 1..(Len(log[s]) - 1) :
           /\ log[s][i].id = ToolCallsOf(w)[k].id
           /\ log[s][i + 1].id = ToolCallsOf(w)[k + 1].id

\* C32: after cancel_appointment has returned a completed event for a
\* contact, date and time, no name given, the table holds no booked row of
\* that contact at that date and time, whatever calls came before.
C32_CancelLeavesNoBooked ==
  [][(Returns("cancel_appointment") /\ resp'.event.status = "completed") =>
       \A sid \in EngineSessions, r \in CancelReqs :
         LET c == Acting(sid, r[1])
             n == normalize_date_time(r[3][1], r[3][2])
         IN (r[2] = None /\ cancel_appointment(sid, r[1], r[2], r[3][1], r[3][2]))
            => ~\E a \in repo' :
                  /\ a.contact_number = c /\ a.status = "booked"
                  /\ a.date = n.date /\ a.time = n.time]_vars

\* C33: the recap composed at end_conversation has a clause under Booked,
\* Updated or Cancelled only for a backend call that returned a completed
\* event and whose outcome is in the table: a clause under Booked for an
\* appointment stored as booked, one under Updated for a moved row, one under
\* Cancelled for a row that is cancelled.  Stated on the step in which the
\* clause joins the recap.
C33_RecapOnlyListsOutcomes ==
  [][\A sid \in AgentSessions :
       LET old == summary_text(agent[sid])
           new == summary_text(agent'[sid])
       IN /\ Len(new.booked) > Len(old.booked)
             => /\ resp'.tool = "book_appointment" /\ resp'.event.status = "completed"
                /\ resp'.appt.status = "booked" /\ resp'.appt \in repo'
          /\ Len(new.updated) > Len(old.updated)
             => /\ resp'.tool = "modify_appointment" /\ resp'.event.status = "completed"
                /\ resp'.appt.status = "booked" /\ resp'.appt \in repo'
                /\ resp'.appt \notin repo
          /\ Len(new.cancelled) > Len(old.cancelled)
             => /\ resp'.tool = "cancel_appointment" /\ resp'.event.status = "completed"
                /\ \E a \in repo : a.status = "booked"
                                    /\ [a EXCEPT !.status = "cancelled"] \in repo']_vars

====
